---- MODULE Spec2Model ----
(***************************************************************************)
(* A model of custom_logging (src/custom_logging/__main__.py): the         *)
(* LogFormatter, the CustomFilter, the CustomLogAdapter and the            *)
(* configuration entry points, on top of the standard library's logging    *)
(* primitives (Logger, Handler, Formatter, LogRecord).                     *)
(*                                                                         *)
(* Text is modelled as a sequence of tokens (strings): a template such as  *)
(* "%(levelname)s %(message)s" is <<"%(levelname)s", " ", "%(message)s">>, *)
(* an escape sequence is one token, a run of n blanks is the token "SPn".  *)
(***************************************************************************)
EXTENDS Integers, Sequences, FiniteSets, TLC

VARIABLES
    formatter,  \* a LogFormatter driven directly: [fmt, disable_color]
    heap,       \* the record objects of a direct format call: "given" and "copy"
    fres,       \* what the last direct LogFormatter.format call did
    flt,        \* what the last direct CustomFilter.filter call did
    loggers,    \* logging's registry: logger name -> [level, handlers, filters]
    adapters,   \* names for which get_custom_logger returned an adapter
    cfg,        \* per logger, the configure_logging calls made for it, in order
    flags,      \* the process's command-line flags: [verbose, disable_color, skip_logging]
    last        \* what the last call into the package did

vars == <<formatter, heap, fres, flt, loggers, adapters, cfg, flags, last>>

----------------------------------------------------------------------------
(* Values *)

None == "None"          \* Python's None
Unset == "<unset>"      \* an attribute the object does not have
NoKey == "<nokey>"      \* a key a mapping does not hold

Truthy(v) == v \notin {None, Unset, NoKey, ""}

LOGGER_NAME == "LOGGING"
DEFAULT_LOG_FILE_NAME == "logging.log"
DEFAULT_LOGGER_FILE_HANDLER_NAME == "LOGGING_FILE_HANDLER_NAME"

LevelNames == {"DEBUG", "INFO", "WARNING", "ERROR", "CRITICAL"}

\* logging.DEBUG ... logging.CRITICAL, as getattr(logging, level) resolves them
LevelNo(l) ==
    CASE l = "DEBUG" -> 10
      [] l = "INFO" -> 20
      [] l = "WARNING" -> 30
      [] l = "ERROR" -> 40
      [] l = "CRITICAL" -> 50
      [] OTHER -> 0

\* logging.getLevelName(levelno)
getLevelName(n) ==
    CASE n = 10 -> "DEBUG"
      [] n = 20 -> "INFO"
      [] n = 30 -> "WARNING"
      [] n = 40 -> "ERROR"
      [] n = 50 -> "CRITICAL"
      [] OTHER -> "NOTSET"

\* str.upper() on the names used here
Upper(s) ==
    CASE s = "worker" -> "WORKER"
      [] s = "logging" -> "LOGGING"
      [] OTHER -> s

----------------------------------------------------------------------------
(* Call arguments of a record: (), {}, a non-empty tuple, a non-empty mapping *)

ArgKeys == {"name", "color", "k"}
NoMap == [a \in ArgKeys |-> NoKey]

EmptyTuple == [kind |-> "()", vals |-> <<>>, map |-> NoMap]
EmptyDict == [kind |-> "{}", vals |-> <<>>, map |-> NoMap]
TupleArgs(v) == [kind |-> "tuple", vals |-> v, map |-> NoMap]
MapArgs(m) == [kind |-> "map", vals |-> <<>>, map |-> m]

\* bool(record.args)
ArgsTruthy(args) == args.kind \in {"tuple", "map"}

\* the mappings a call can pass as its single argument
ArgMaps ==
    {m \in [ArgKeys -> {NoKey, "Z", "red", "bogus", "v"}] :
        /\ m["name"] \in {NoKey, "Z"}
        /\ m["color"] \in {NoKey, "red", "bogus"}
        /\ m["k"] \in {NoKey, "v"}
        /\ m # NoMap}

RecordArgs == {EmptyTuple, TupleArgs(<<"y">>)} \cup {MapArgs(m) : m \in ArgMaps}

\* message templates: plain text, one positional specifier, one keyed specifier
Messages == {<<"m">>, <<"m=", "%s">>, <<"m=", "%(k)s">>}

\* the attributes a filter may inject on a record
AttrKeys == {"name", "color"}

\* dict(): a filter mapping that declares nothing
NoKwargs == [a \in AttrKeys |-> NoKey]

\* logging.LogRecord(name, level, ..., msg, args): name is the logger's name
LogRecord(name, levelname, msg, args) ==
    [levelname |-> <<levelname>>,
     levelno |-> LevelNo(levelname),
     msg |-> msg,
     args |-> args,
     message |-> <<>>,
     attrs |-> [a \in AttrKeys |-> IF a = "name" THEN name ELSE Unset]]

----------------------------------------------------------------------------
(* The colorizer (colors.CText), an external collaborator *)

CTextColors == {"magenta", "red", "yellow", "green", "white", "default"}

\* hasattr(CText, color)
CText_has(color) == color \in CTextColors

\* getattr(CText, color)(text)
CText_apply(color, text) ==
    IF color = "default" THEN text
    ELSE <<"ESC_" \o color>> \o text \o <<"RESET">>

IsEscape(tok) == tok = "RESET" \/ tok \in {"ESC_" \o c : c \in CTextColors}

\* a text without its color escape sequences
RECURSIVE StripColor(_)
StripColor(text) ==
    IF text = <<>> THEN <<>>
    ELSE IF IsEscape(Head(text)) THEN StripColor(Tail(text))
    ELSE <<Head(text)>> \o StripColor(Tail(text))

----------------------------------------------------------------------------
(* String formatting *)

\* len() of one token of a level name text
TokWidth(tok) ==
    CASE tok = "INFO" -> 4
      [] tok \in {"DEBUG", "ERROR"} -> 5
      [] tok = "WARNING" -> 7
      [] tok = "CRITICAL" -> 8
      [] tok = "SP1" -> 1
      [] tok = "SP3" -> 3
      [] tok = "SP4" -> 4
      [] tok = "RESET" -> 4
      [] OTHER -> 5      \* an escape sequence such as ESC[35m

RECURSIVE TextWidth(_)
TextWidth(text) ==
    IF text = <<>> THEN 0 ELSE TokWidth(Head(text)) + TextWidth(Tail(text))

\* a run of n blanks
Spaces(n) ==
    CASE n = 1 -> "SP1" [] n = 3 -> "SP3" [] n = 4 -> "SP4" [] OTHER -> "SP"

\* f"{text:>8}"
RightAlign8(text) ==
    IF TextWidth(text) >= 8 THEN text
    ELSE <<Spaces(8 - TextWidth(text))>> \o text

IsPosSpec(tok) == tok = "%s"
IsKeySpec(tok) == tok = "%(k)s"
SpecKey(tok) == "k"

HasKeySpec(msg) == \E i \in 1..Len(msg) : IsKeySpec(msg[i])
NumPosSpec(msg) == Cardinality({i \in 1..Len(msg) : IsPosSpec(msg[i])})

\* msg % args, for args a tuple or a mapping
PercentFails(msg, args) ==
    IF args.kind = "tuple"
    THEN HasKeySpec(msg) \/ NumPosSpec(msg) # Len(args.vals)
    ELSE \/ NumPosSpec(msg) > 1
         \/ \E i \in 1..Len(msg) : IsKeySpec(msg[i]) /\ args.map[SpecKey(msg[i])] = NoKey

RECURSIVE PercentText(_, _, _)
PercentText(msg, args, n) ==
    IF msg = <<>> THEN <<>>
    ELSE LET tok == Head(msg)
             sub == IF IsPosSpec(tok)
                    THEN (IF args.kind = "tuple" THEN args.vals[n] ELSE "repr(args)")
                    ELSE IF IsKeySpec(tok) THEN args.map[SpecKey(tok)]
                    ELSE tok
         IN  <<sub>> \o PercentText(Tail(msg), args, IF IsPosSpec(tok) THEN n + 1 ELSE n)

\* LogRecord.getMessage(): msg % args when args is truthy, msg otherwise
getMessage(rec) ==
    IF ~ArgsTruthy(rec.args) THEN [raised |-> FALSE, text |-> rec.msg]
    ELSE IF PercentFails(rec.msg, rec.args) THEN [raised |-> TRUE, text |-> <<>>]
    ELSE [raised |-> FALSE, text |-> PercentText(rec.msg, rec.args, 1)]

\* fmt % record.__dict__
RECURSIVE PercentStyle(_, _)
PercentStyle(fmt, rec) ==
    IF fmt = <<>> THEN <<>>
    ELSE LET tok == Head(fmt)
             sub == CASE tok = "%(levelname)s" -> rec.levelname
                      [] tok = "%(message)s" -> rec.message
                      [] tok = "%(msg)s" -> rec.msg
                      [] tok = "%(asctime)s" -> <<"ASCTIME">>
                      [] OTHER -> <<tok>>
         IN  sub \o PercentStyle(Tail(fmt), rec)

\* logging.Formatter.format(record): sets record.message, then renders the template
Formatter_format(fmt, rec) ==
    LET m == getMessage(rec)
    IN  IF m.raised
        THEN [raised |-> TRUE, out |-> <<>>, rec |-> rec]
        ELSE LET r1 == [rec EXCEPT !.message = m.text]
             IN  [raised |-> FALSE, out |-> PercentStyle(fmt, r1), rec |-> r1]

StdoutFmt == <<"%(levelname)s", " ", "%(message)s">>
FileFmt == <<"%(asctime)s", " ", "%(levelname)s", " ", "%(message)s">>

----------------------------------------------------------------------------
(* LogFormatter *)

colored_levels(levelname) ==
    CASE levelname = "ERROR" -> "magenta"
      [] levelname = "CRITICAL" -> "red"
      [] levelname = "WARNING" -> "yellow"
      [] levelname = "INFO" -> "green"
      [] levelname = "DEBUG" -> "white"
      [] OTHER -> "default"

\* the object bound to `record` by a statement that binds the given record itself
copy_alias(h, ref) == [obj |-> ref, heap |-> h]

\* copy.copy(_record): a new object with the given record's attribute values
copy_copy(h, ref) == [obj |-> "copy", heap |-> [h EXCEPT !["copy"] = h[ref]]]

\* self.colored_levels.get(record.levelname, "default")
LevelColor(levelname) ==
    IF Len(levelname) = 1 THEN colored_levels(levelname[1]) ELSE "default"

\* LogFormatter.format(_record), on the objects of h; ref names the given record.
\* Returns what was raised or rendered, the formatter's template and the
\* objects as the call leaves them.
LogFormatter_format(self, h, ref) ==
    LET original_fmt == self.fmt
        c == copy_copy(h, ref)
        record == c.obj
        h1 == [c.heap EXCEPT ![record].args =
                  IF ArgsTruthy(@) THEN @ ELSE EmptyDict]
    IN  IF h1[record].args.kind = "tuple"
        THEN \* a tuple has no .get
             [raised |-> TRUE, err |-> "AttributeError", out |-> <<>>,
              fmt |-> original_fmt, heap |-> h1]
        ELSE
        LET color0 == h1[record].args.map["color"]
            override_color == IF color0 = NoKey THEN None ELSE color0
            fmt1 == IF ~self.disable_color /\ Truthy(override_color)
                    THEN CText_apply(IF CText_has(override_color) THEN override_color
                                     ELSE "default", <<"%(msg)s">>)
                    ELSE original_fmt
            h2 == IF ~self.disable_color
                  THEN [h1 EXCEPT ![record].levelname =
                           CText_apply(LevelColor(@), RightAlign8(@))]
                  ELSE h1
            h3 == [h2 EXCEPT ![record].levelname = RightAlign8(@)]
            h4 == [h3 EXCEPT ![record].msg =
                      IF Truthy(h3[record].attrs["name"])
                      THEN <<h3[record].attrs["name"], ": ">> \o @
                      ELSE @]
            res == Formatter_format(fmt1, h4[record])
        IN  IF res.raised
            THEN \* the exception leaves format before the template is restored
                 [raised |-> TRUE, err |-> "FormatError", out |-> <<>>,
                  fmt |-> fmt1, heap |-> h4]
            ELSE [raised |-> FALSE, err |-> "", out |-> res.out,
                  fmt |-> original_fmt, heap |-> [h4 EXCEPT ![record] = res.rec]]

\* LogFormatter(fmt, disable_color)
LogFormatter(fmt, disable_color) == [fmt |-> fmt, disable_color |-> disable_color]

----------------------------------------------------------------------------
(* CustomFilter *)

\* kwargs or dict(): the mapping a CustomFilter holds
FilterMaps ==
    {f \in [AttrKeys -> {NoKey, "A", "WORKER", "red"}] :
        /\ f["name"] \in {NoKey, "A", "WORKER"}
        /\ f["color"] \in {NoKey, "red"}}

\* setattr(record, attribute, record.args.get(attribute) if record.args else value)
FilterValue(rec, attribute, value) ==
    IF ArgsTruthy(rec.args)
    THEN (IF rec.args.map[attribute] = NoKey THEN None ELSE rec.args.map[attribute])
    ELSE value

\* CustomFilter.filter(record): [raised, returned, rec]
CustomFilter_filter(custom_filter, rec) ==
    LET declared == {a \in AttrKeys : custom_filter[a] # NoKey}
    IN  IF declared # {} /\ rec.args.kind = "tuple"
        THEN \* a tuple has no .get
             [raised |-> TRUE, returned |-> FALSE, rec |-> rec]
        ELSE [raised |-> FALSE, returned |-> TRUE,
              rec |-> [rec EXCEPT !.attrs =
                          [a \in AttrKeys |->
                              IF a \in declared
                              THEN FilterValue(rec, a, custom_filter[a])
                              ELSE @[a]]]]

----------------------------------------------------------------------------
(* logging's Logger and Handler, as this package drives them *)

LoggerNames == {"LOGGING", "WORKER", "worker"}

\* a logger as logging.getLogger(name) first creates it: level NOTSET
NewLogger == [level |-> 0, handlers |-> <<>>, filters |-> <<>>]

\* Logger.getEffectiveLevel(): the root logger's WARNING while the level is NOTSET
getEffectiveLevel(logger) == IF logger.level # 0 THEN logger.level ELSE LevelNo("WARNING")

\* Logger.isEnabledFor(level)
isEnabledFor(logger, levelno) == levelno >= getEffectiveLevel(logger)

\* Filterer.filter(record): the attached filters, in attachment order
RECURSIVE RunFilters(_, _, _)
RunFilters(filters, i, rec) ==
    IF i > Len(filters) THEN [raised |-> FALSE, passed |-> TRUE, rec |-> rec]
    ELSE LET r == CustomFilter_filter(filters[i], rec)
         IN  IF r.raised THEN [raised |-> TRUE, passed |-> FALSE, rec |-> r.rec]
             ELSE IF ~r.returned THEN [raised |-> FALSE, passed |-> FALSE, rec |-> r.rec]
             ELSE RunFilters(filters, i + 1, r.rec)

\* emit(record) of a handler whose formatter is a LogFormatter, r being what
\* self.format(record) did: the handler keeps the formatter's template
LogFormatter_emit(hdlr, r) ==
    [hdlr |-> [hdlr EXCEPT !.formatter.fmt = r.fmt],
     rec |-> r.heap["given"], wrote |-> ~r.raised, out |-> r.out]

\* emit(record) of a handler whose formatter is a logging.Formatter
Formatter_emit(hdlr, r) ==
    [hdlr |-> hdlr, rec |-> r.rec, wrote |-> ~r.raised, out |-> r.out]

\* Handler.handle(record) -> emit(record); a failure inside emit goes to
\* handleError and writes nothing. NullHandler.handle does nothing.
Handler_handle(hdlr, rec) ==
    IF hdlr.kind = "NullHandler"
    THEN [hdlr |-> hdlr, rec |-> rec, wrote |-> FALSE, out |-> <<>>]
    ELSE IF hdlr.formatter.cls = "LogFormatter"
    THEN LogFormatter_emit(hdlr, LogFormatter_format(hdlr.formatter,
                                     [o \in {"given", "copy"} |-> rec], "given"))
    ELSE Formatter_emit(hdlr, Formatter_format(hdlr.formatter.fmt, rec))

NotReceived == [recv |-> FALSE, wrote |-> FALSE, out |-> <<>>]

\* Logger.callHandlers(record): every handler whose level the record reaches
RECURSIVE callHandlers(_, _, _, _)

\* the handlers after handler i, r being what hdlr.handle(record) did
callNextHandlers(handlers, i, deliv, r) ==
    callHandlers([handlers EXCEPT ![i] = r.hdlr], i + 1, r.rec,
                 Append(deliv, [recv |-> TRUE, wrote |-> r.wrote, out |-> r.out]))

callHandlers(handlers, i, rec, deliv) ==
    IF i > Len(handlers) THEN [handlers |-> handlers, deliv |-> deliv]
    ELSE IF rec.levelno >= handlers[i].level
    THEN callNextHandlers(handlers, i, deliv, Handler_handle(handlers[i], rec))
    ELSE callHandlers(handlers, i + 1, rec, Append(deliv, NotReceived))

\* Logger.handle(record) once the filters let the record pass, c being what
\* callHandlers did
Logger_handle(lg, L, levelname, msg, args, attrs, c) ==
    [loggers |-> [lg EXCEPT ![L].handlers = c.handlers],
     emission |-> [created |-> TRUE, levelname |-> levelname, msg |-> msg,
                   args |-> args, raised |-> FALSE, attrs |-> attrs,
                   deliv |-> c.deliv]]

\* Logger.log(level, msg, *args) on logger L of registry lg:
\* [loggers, emission]; the emission says what became of the record
Logger_log(lg, L, levelname, msg, args) ==
    IF ~isEnabledFor(lg[L], LevelNo(levelname))
    THEN [loggers |-> lg,
          emission |-> [created |-> FALSE, levelname |-> levelname, msg |-> msg,
                        args |-> args, raised |-> FALSE,
                        attrs |-> [a \in AttrKeys |-> Unset], deliv |-> <<>>]]
    ELSE LET rec == LogRecord(L, levelname, msg, args)
             f == RunFilters(lg[L].filters, 1, rec)
         IN  IF f.raised \/ ~f.passed
             THEN [loggers |-> lg,
                   emission |-> [created |-> TRUE, levelname |-> levelname, msg |-> msg,
                                 args |-> args, raised |-> f.raised,
                                 attrs |-> f.rec.attrs, deliv |-> <<>>]]
             ELSE Logger_handle(lg, L, levelname, msg, args, f.rec.attrs,
                                callHandlers(lg[L].handlers, 1, f.rec, <<>>))

----------------------------------------------------------------------------
(* The package's functions *)

\* class VerbosityLevels(Enum): WARNING = 0, INFO = 1, DEBUG = 2
VerbosityLevels(value) ==
    CASE value = 0 -> "WARNING"
      [] value = 1 -> "INFO"
      [] value = 2 -> "DEBUG"
      [] OTHER -> "ValueError"

NumVerbosityLevels == 3

Min(a, b) == IF a <= b THEN a ELSE b

\* VerbosityLevels(min(verbose, len(VerbosityLevels.__members__) - 1)).name
ResolvedLevel(verbose) == VerbosityLevels(Min(verbose, NumVerbosityLevels - 1))

_get_configured_stdout_handler(level, disable_color) ==
    [kind |-> "StreamHandler",
     name |-> None,
     level |-> LevelNo(level),
     formatter |-> [cls |-> "LogFormatter", fmt |-> StdoutFmt,
                    disable_color |-> disable_color],
     baseFilename |-> Unset]

\* os.path.abspath(filename)
abspath(filename) == "/cwd/" \o filename

_get_configured_file_handler(filename, skip_logging, file_handler_name) ==
    [kind |-> IF skip_logging THEN "NullHandler" ELSE "FileHandler",
     name |-> file_handler_name,
     level |-> LevelNo("DEBUG"),
     formatter |-> [cls |-> "Formatter", fmt |-> FileFmt, disable_color |-> FALSE],
     baseFilename |-> IF skip_logging THEN Unset ELSE abspath(filename)]

\* path.join(log_path, file)
_get_log_file(log_path, file) == log_path \o "/" \o file

\* a selection by handler name alone, without the isinstance(handler, FileHandler) test
RECURSIVE SelectHandlersByNameOnly(_, _)
SelectHandlersByNameOnly(handlers, file_handler_name) ==
    IF handlers = <<>> THEN <<>>
    ELSE LET h == Head(handlers)
             rest == SelectHandlersByNameOnly(Tail(handlers), file_handler_name)
         IN  IF h.name = file_handler_name THEN <<h>> \o rest ELSE rest

\* filter(lambda handler: isinstance(handler, logging.FileHandler) and
\* handler.name == file_handler_name, handlers), in attachment order
RECURSIVE SelectHandlers(_, _)
SelectHandlers(handlers, file_handler_name) ==
    IF handlers = <<>> THEN <<>>
    ELSE LET h == Head(handlers)
             rest == SelectHandlers(Tail(handlers), file_handler_name)
         IN  IF h.kind = "FileHandler" /\ h.name = file_handler_name
             THEN <<h>> \o rest ELSE rest

\* get_log_file_from_handler(logger_name, file_handler_name) on registry lg
get_log_file_from_handler(lg, logger_name, file_handler_name) ==
    LET found == SelectHandlers(lg[logger_name].handlers, file_handler_name)
    IN  IF found = <<>> THEN "IndexError"
        ELSE IF found[1].baseFilename = Unset THEN "" ELSE found[1].baseFilename

\* configure_logging(verbose, disable_color, skip_logging, log_path, logger_name)
\* on registry lg: [loggers, emission]
configure_logging(lg, verbose, disable_color, skip_logging, log_path, logger_name) ==
    LET level == ResolvedLevel(verbose)
        lg1 == [lg EXCEPT ![logger_name].level = LevelNo("DEBUG")]
        lg2 == [lg1 EXCEPT ![logger_name].handlers =
                   Append(@, _get_configured_stdout_handler(level, disable_color))]
        lg3 == [lg2 EXCEPT ![logger_name].handlers =
                   Append(@, _get_configured_file_handler(
                                 _get_log_file(log_path, DEFAULT_LOG_FILE_NAME),
                                 skip_logging, DEFAULT_LOGGER_FILE_HANDLER_NAME))]
    IN  Logger_log(lg3, logger_name, getLevelName(lg3[logger_name].level),
                   <<"Verbosity level: ", logger_name, " = ",
                     getLevelName(lg3[logger_name].level)>>,
                   EmptyTuple)

\* CustomLogAdapter.__init__(_logger, name): attaches CustomFilter(dict(name=name))
CustomLogAdapter_init(lg, L, name) ==
    [lg EXCEPT ![L].filters = Append(@, [NoKwargs EXCEPT !["name"] = name])]

\* LoggerAdapter.log(level, msg, *args, **kwargs): when the logger is enabled for
\* the level, process() attaches CustomFilter(kwargs or dict()) and hands the
\* logger the message with empty keywords
CustomLogAdapter_log(lg, L, levelname, msg, args, kwargs) ==
    Logger_log(IF isEnabledFor(lg[L], LevelNo(levelname))
               THEN [lg EXCEPT ![L].filters = Append(@, kwargs)]
               ELSE lg,
               L, levelname, msg, args)

----------------------------------------------------------------------------
(* Bounds and input sets *)

MaxVerbose == 3      \* verbosity counts 0..MaxVerbose
MaxConfigure == 2    \* configure_logging calls in a run
MaxFilters == 3      \* filters attached to one logger in a run

Verbosities == 0..MaxVerbose
AdapterNames == {"worker"}
ConfiguredNames == {"WORKER"}
HandlerNames == {DEFAULT_LOGGER_FILE_HANDLER_NAME, "OTHER_HANDLER"}
LogPath == "logs"

\* the flags a run's flag parser can hand to every configuration call of the run
Flags == [verbose : Verbosities, disable_color : BOOLEAN, skip_logging : BOOLEAN]
DefaultFlags == [verbose |-> 0, disable_color |-> FALSE, skip_logging |-> FALSE]

CallLevels == {"DEBUG", "INFO", "WARNING"}

\* a call's message with arguments that fit it: none, a positional value,
\* a mapping naming an attribute, a mapping for a keyed specifier
CallShapes ==
    {[msg |-> <<"m">>, args |-> EmptyTuple],
     [msg |-> <<"m=", "%s">>, args |-> TupleArgs(<<"y">>)],
     [msg |-> <<"m">>, args |-> MapArgs([NoMap EXCEPT !["name"] = "Z"])],
     [msg |-> <<"m=", "%(k)s">>, args |-> MapArgs([NoMap EXCEPT !["k"] = "v"])]}

CallKwargs == {NoKwargs, [NoKwargs EXCEPT !["name"] = "WORKER"],
               [NoKwargs EXCEPT !["name"] = "A"]}

\* records handed straight to a formatter
NameAttrs == {LOGGER_NAME, "A", None}
FormatLevels == {"DEBUG", "WARNING", "CRITICAL"}
FormatArgs ==
    {EmptyTuple, TupleArgs(<<"y">>)} \cup
    {MapArgs(m) : m \in {x \in ArgMaps : x["name"] = NoKey}}
Records ==
    {[LogRecord(LOGGER_NAME, l, m, a) EXCEPT !.attrs["name"] = n] :
        l \in FormatLevels, m \in Messages, a \in FormatArgs, n \in NameAttrs}

\* records handed straight to a filter
FilterRecords ==
    {[LogRecord(LOGGER_NAME, "INFO", <<"m">>, a) EXCEPT !.attrs["name"] = n] :
        a \in RecordArgs, n \in NameAttrs}

RECURSIVE SumLen(_, _)
SumLen(f, S) ==
    IF S = {} THEN 0
    ELSE LET x == CHOOSE y \in S : TRUE IN Len(f[x]) + SumLen(f, S \ {x})

NumConfigured == SumLen(cfg, LoggerNames)

----------------------------------------------------------------------------
(* State *)

NoFormatCall ==
    [called |-> FALSE, arg |-> LogRecord(LOGGER_NAME, "DEBUG", <<"m">>, EmptyTuple),
     start_fmt |-> StdoutFmt, raised |-> FALSE, err |-> "", out |-> <<>>]

NoFilterCall ==
    [called |-> FALSE, custom_filter |-> NoKwargs,
     arg |-> LogRecord(LOGGER_NAME, "DEBUG", <<"m">>, EmptyTuple),
     rec |-> LogRecord(LOGGER_NAME, "DEBUG", <<"m">>, EmptyTuple),
     raised |-> FALSE, returned |-> FALSE]

NoCall ==
    [op |-> "none", logger |-> "", verbose |-> 0, kwargs |-> NoKwargs,
     handler |-> "", result |-> "", before |-> <<>>, nfilters |-> 0,
     records |-> <<>>]

InitWith(F, D) ==
    /\ formatter \in {LogFormatter(StdoutFmt, d) : d \in D}
    /\ heap = [o \in {"given", "copy"} |->
                  LogRecord(LOGGER_NAME, "DEBUG", <<"m">>, EmptyTuple)]
    /\ fres = NoFormatCall
    /\ flt = NoFilterCall
    /\ loggers = [n \in LoggerNames |-> NewLogger]
    /\ adapters = {}
    /\ cfg = [n \in LoggerNames |-> <<>>]
    /\ flags \in F
    /\ last = NoCall

\* a fresh process: no logger configured yet, any flags
Init == InitWith(Flags, {FALSE})

\* a LogFormatter as _get_configured_stdout_handler constructs it, either flag
InitFormatter == InitWith({DefaultFlags}, BOOLEAN)

InitFilter == InitWith({DefaultFlags}, {FALSE})

----------------------------------------------------------------------------
(* Direct calls of the formatter and the filter *)

\* formatter.format(rec) for a record rec the caller holds
Format(rec) ==
    \E r \in {LogFormatter_format(formatter, [heap EXCEPT !["given"] = rec], "given")} :
        /\ formatter' = [formatter EXCEPT !.fmt = r.fmt]
        /\ heap' = r.heap
        /\ fres' = [called |-> TRUE, arg |-> rec, start_fmt |-> formatter.fmt,
                    raised |-> r.raised, err |-> r.err, out |-> r.out]
        /\ UNCHANGED <<flt, loggers, adapters, cfg, flags, last>>

\* CustomFilter(custom_filter).filter(rec)
Filter(custom_filter, rec) ==
    \E r \in {CustomFilter_filter(custom_filter, rec)} :
        /\ flt' = [called |-> TRUE, custom_filter |-> custom_filter, arg |-> rec,
                   rec |-> r.rec, raised |-> r.raised, returned |-> r.returned]
        /\ UNCHANGED <<formatter, heap, fres, loggers, adapters, cfg, flags, last>>

NextFormatter == \E rec \in Records : Format(rec)

NextFilter == \E f \in FilterMaps, rec \in FilterRecords : Filter(f, rec)

SpecFormatter == InitFormatter /\ [][NextFormatter]_vars

SpecFilter == InitFilter /\ [][NextFilter]_vars

----------------------------------------------------------------------------
(* Calls into the package *)

ConfigureLogging(verbose, disable_color, skip_logging, logger_name) ==
    /\ NumConfigured < MaxConfigure
    /\ \E r \in {configure_logging(loggers, verbose, disable_color, skip_logging,
                                   LogPath, logger_name)} :
           /\ loggers' = r.loggers
           /\ last' = [op |-> "configure_logging", logger |-> logger_name,
                       verbose |-> verbose, kwargs |-> NoKwargs, handler |-> "",
                       result |-> "", before |-> loggers[logger_name].handlers,
                       nfilters |-> Len(loggers[logger_name].filters),
                       records |-> <<r.emission>>]
    /\ cfg' = [cfg EXCEPT ![logger_name] =
                  Append(@, [verbose |-> verbose, skip_logging |-> skip_logging])]
    /\ UNCHANGED <<formatter, heap, fres, flt, adapters, flags>>

\* the two records of a get_custom_logger call: configure_logging's, then d, what
\* logger.debug("Logger configured.", ...) did
TwoEmissions(first, d) == [loggers |-> d.loggers, emissions |-> <<first, d.emission>>]

\* logger.debug("Logger configured.", name=name.upper()), c being what
\* configure_logging did
logger_debug_configured(c, name) ==
    TwoEmissions(c.emission,
                 CustomLogAdapter_log(c.loggers, Upper(name), "DEBUG",
                                      <<"Logger configured.">>, EmptyTuple,
                                      [NoKwargs EXCEPT !["name"] = Upper(name)]))

\* get_custom_logger(verbose, disable_color, skip_logging, name):
\* _get_custom_adapter, configure_logging, then logger.debug(..., name=name.upper())
get_custom_logger(lg, verbose, disable_color, skip_logging, name) ==
    logger_debug_configured(
        configure_logging(CustomLogAdapter_init(lg, Upper(name), name), verbose,
                          disable_color, skip_logging, LogPath, Upper(name)),
        name)

GetCustomLogger(verbose, disable_color, skip_logging, name) ==
    /\ NumConfigured < MaxConfigure
    /\ Len(loggers[Upper(name)].filters) + 2 <= MaxFilters
    /\ \E r \in {get_custom_logger(loggers, verbose, disable_color, skip_logging, name)} :
           /\ loggers' = r.loggers
           /\ last' = [op |-> "get_custom_logger", logger |-> Upper(name),
                       verbose |-> verbose,
                       kwargs |-> [NoKwargs EXCEPT !["name"] = Upper(name)],
                       handler |-> "", result |-> "",
                       before |-> loggers[Upper(name)].handlers,
                       nfilters |-> Len(loggers[Upper(name)].filters),
                       records |-> r.emissions]
    /\ adapters' = adapters \cup {name}
    /\ cfg' = [cfg EXCEPT ![Upper(name)] =
                  Append(@, [verbose |-> verbose, skip_logging |-> skip_logging])]
    /\ UNCHANGED <<formatter, heap, fres, flt, flags>>

\* adapter.debug/info/warning/error(msg, *args, **kwargs) on a returned adapter
AdapterLog(name, levelname, msg, args, kwargs) ==
    /\ name \in adapters
    /\ Len(loggers[Upper(name)].filters) < MaxFilters
    /\ \E r \in {CustomLogAdapter_log(loggers, Upper(name), levelname, msg, args, kwargs)} :
           /\ loggers' = r.loggers
           /\ last' = [op |-> "adapter_log", logger |-> Upper(name), verbose |-> 0,
                       kwargs |-> kwargs, handler |-> "", result |-> "",
                       before |-> loggers[Upper(name)].handlers,
                       nfilters |-> Len(loggers[Upper(name)].filters),
                       records |-> <<r.emission>>]
    /\ UNCHANGED <<formatter, heap, fres, flt, adapters, cfg, flags>>

\* logging.getLogger(L).debug/info/warning/error(msg, *args)
DirectLog(L, levelname, msg, args) ==
    /\ \E r \in {Logger_log(loggers, L, levelname, msg, args)} :
           /\ loggers' = r.loggers
           /\ last' = [op |-> "logger_log", logger |-> L, verbose |-> 0,
                       kwargs |-> NoKwargs, handler |-> "", result |-> "",
                       before |-> loggers[L].handlers,
                       nfilters |-> Len(loggers[L].filters),
                       records |-> <<r.emission>>]
    /\ UNCHANGED <<formatter, heap, fres, flt, adapters, cfg, flags>>

GetLogFileFromHandler(logger_name, file_handler_name) ==
    /\ last' = [op |-> "get_log_file_from_handler", logger |-> logger_name,
                verbose |-> 0, kwargs |-> NoKwargs, handler |-> file_handler_name,
                result |-> get_log_file_from_handler(loggers, logger_name,
                                                     file_handler_name),
                before |-> loggers[logger_name].handlers,
                nfilters |-> Len(loggers[logger_name].filters), records |-> <<>>]
    /\ UNCHANGED <<formatter, heap, fres, flt, loggers, adapters, cfg, flags>>

Next ==
    \/ \E n \in ConfiguredNames :
           ConfigureLogging(flags.verbose, flags.disable_color, flags.skip_logging, n)
    \/ \E n \in AdapterNames :
           GetCustomLogger(flags.verbose, flags.disable_color, flags.skip_logging, n)
    \/ \E n \in AdapterNames, l \in CallLevels, c \in CallShapes, kw \in CallKwargs :
           AdapterLog(n, l, c.msg, c.args, kw)
    \/ \E n \in ConfiguredNames, l \in CallLevels, c \in CallShapes :
           DirectLog(n, l, c.msg, c.args)
    \/ \E n \in LoggerNames, h \in HandlerNames : GetLogFileFromHandler(n, h)

Spec == Init /\ [][Next]_vars

----------------------------------------------------------------------------
(* Properties *)

\* the level a verbosity count stands for: 0 -> WARNING, 1 -> INFO, 2 or more -> DEBUG
LevelOfCount(n) == IF n = 0 THEN "WARNING" ELSE IF n = 1 THEN "INFO" ELSE "DEBUG"

LogOps == {"adapter_log", "logger_log"}

\* text t holds the prefix immediately followed by the message text
PrefixPrecedes(t, prefix, msg) ==
    \E i \in 1..Len(t) :
        /\ i + Len(prefix) + Len(msg) - 1 <= Len(t)
        /\ SubSeq(t, i, i + Len(prefix) - 1) = prefix
        /\ SubSeq(t, i + Len(prefix), i + Len(prefix) + Len(msg) - 1) = msg

\* the record's arguments without a color override
WithoutColor(rec) ==
    IF rec.args.kind # "map" THEN rec
    ELSE IF [rec.args.map EXCEPT !["color"] = NoKey] = NoMap
    THEN [rec EXCEPT !.args = EmptyDict]
    ELSE [rec EXCEPT !.args.map["color"] = NoKey]

\* what a freshly constructed color-enabled formatter makes of rec
FreshFormat(rec) ==
    LogFormatter_format(LogFormatter(StdoutFmt, FALSE),
                        [o \in {"given", "copy"} |-> rec], "given")

\* the value held by the most recently attached filter that declares the attribute
RECURSIVE LatestDeclared(_, _)
LatestDeclared(filters, a) ==
    IF filters = <<>> THEN Unset
    ELSE IF filters[Len(filters)][a] # NoKey THEN filters[Len(filters)][a]
    ELSE LatestDeclared(SubSeq(filters, 1, Len(filters) - 1), a)

\* C1: LogFormatter.format leaves the record object it is given as it was:
\* message, level name, arguments and attributes are those of before the call,
\* whatever the severity, the color override, the name attribute and
\* disable_color, and also when the call raises.
C1_FormatKeepsGivenRecord ==
    fres.called => heap["given"] = fres.arg

\* C1 witness: a color-enabled call on a record with a known color override and
\* a name attribute has rendered, and changed its copy only.
C1_Witness ==
    /\ fres.called /\ ~fres.raised /\ ~formatter.disable_color
    /\ fres.arg.args.kind = "map" /\ fres.arg.args.map["color"] = "red"
    /\ fres.arg.attrs["name"] = "A"
    /\ heap["copy"].msg = <<"A", ": ">> \o fres.arg.msg
    /\ heap["copy"].levelname # fres.arg.levelname
    /\ fres.out # <<>>

\* C2 (as claimed): every format call starts with the template the formatter was
\* constructed with, and the template is the constructed one after every call,
\* calls whose base rendering fails included.
C2_TemplateNeverLeaks ==
    /\ formatter.fmt = StdoutFmt
    /\ fres.called => fres.start_fmt = StdoutFmt

\* C3 (as claimed): after CustomFilter.filter, every attribute the filter holds
\* equals the call-supplied value when the call's arguments supply one and the
\* filter's default otherwise; the filter returns true and does not fail.
C3_FilterOverrideRule ==
    flt.called =>
        /\ ~flt.raised
        /\ flt.returned
        /\ \A a \in AttrKeys :
               flt.custom_filter[a] # NoKey =>
                   flt.rec.attrs[a] =
                       IF flt.arg.args.kind = "map" /\ flt.arg.args.map[a] # NoKey
                       THEN flt.arg.args.map[a]
                       ELSE flt.custom_filter[a]

\* C4 (as claimed): a record logged through a returned adapter with keyword
\* name="WORKER" (and no positional arguments) is rendered by every attached
\* console and file handler it reaches with "WORKER: " right before the message.
C4_WorkerPrefixInBothHandlers ==
    (/\ last.op = "adapter_log"
     /\ last.kwargs["name"] = "WORKER"
     /\ last.records[1].args = EmptyTuple
     /\ last.records[1].created)
    => LET e == last.records[1]
           hs == loggers[last.logger].handlers
       IN  /\ ~e.raised
           /\ Len(e.deliv) = Len(hs)
           /\ \A i \in 1..Len(hs) :
                  (e.deliv[i].recv /\ hs[i].kind # "NullHandler") =>
                      /\ e.deliv[i].wrote
                      /\ PrefixPrecedes(e.deliv[i].out, <<"WORKER", ": ">>, e.msg)

\* C5 (as claimed): after one configure_logging call with count n and
\* skip_logging false, the logger's threshold is DEBUG, the console handler
\* emits every record logged afterwards exactly when its severity is at or
\* above the level of min(n, 2), and the file handler receives every one.
C5_ThresholdsAfterConfigure ==
    \A L \in LoggerNames :
        (Len(cfg[L]) = 1 /\ ~cfg[L][1].skip_logging) =>
            /\ loggers[L].level = LevelNo("DEBUG")
            /\ (last.op \in LogOps /\ last.logger = L) =>
                   LET e == last.records[1]
                   IN  /\ e.created
                       /\ Len(e.deliv) = 2
                       /\ e.deliv[1].wrote <=>
                              LevelNo(e.levelname) >=
                                  LevelNo(LevelOfCount(cfg[L][1].verbose))
                       /\ e.deliv[2].recv

\* C6 (as claimed): each configure_logging call emits exactly one record, of
\* INFO severity, whose text announces the level resolved from the count.
C6_StartupRecordAnnouncesLevel ==
    last.op = "configure_logging" =>
        /\ Len(last.records) = 1
        /\ last.records[1].created
        /\ last.records[1].levelname = "INFO"
        /\ last.records[1].msg[Len(last.records[1].msg)] = LevelOfCount(last.verbose)

\* C7: get_log_file_from_handler returns the file path of the first attached
\* FileHandler carrying the handler name, and fails with IndexError when the
\* named logger has none: never configured, configured with skip_logging only
\* (a NullHandler carries the name), or another logger name than the configured
\* one. The logger's handlers are left as they were.
C7_LogFileLookup ==
    last.op = "get_log_file_from_handler" =>
        LET hs == loggers[last.logger].handlers
            hit == {i \in 1..Len(hs) :
                       hs[i].kind = "FileHandler" /\ hs[i].name = last.handler}
        IN  /\ hs = last.before
            /\ hit = {} <=> last.result = "IndexError"
            /\ hit # {} =>
                   /\ last.result = hs[CHOOSE i \in hit : \A j \in hit : i <= j].baseFilename
                   /\ last.result = "/cwd/logs/logging.log"
            /\ cfg[last.logger] = <<>> => last.result = "IndexError"
            /\ (\A i \in 1..Len(cfg[last.logger]) : cfg[last.logger][i].skip_logging)
                   => last.result = "IndexError"
            /\ last.logger \notin ConfiguredNames => last.result = "IndexError"

\* C7 witness: the lookup by the file handler's name failed on a logger that was
\* configured with skip_logging only, whose NullHandler carries that name.
C7_Witness ==
    /\ last.op = "get_log_file_from_handler"
    /\ last.handler = DEFAULT_LOGGER_FILE_HANDLER_NAME
    /\ cfg[last.logger] # <<>>
    /\ \E i \in 1..Len(loggers[last.logger].handlers) :
           /\ loggers[last.logger].handlers[i].kind = "NullHandler"
           /\ loggers[last.logger].handlers[i].name = last.handler
    /\ last.result = "IndexError"

\* C8 (as claimed): with color enabled, a record whose color override is unknown
\* to the colorizer formats without failing to the same text, color escapes
\* aside, as the same record without the override, and leaves the template as
\* constructed. (Records whose message does not fit their arguments are left out.)
C8_UnknownColorSameOutput ==
    (/\ fres.called /\ ~formatter.disable_color
     /\ fres.start_fmt = StdoutFmt
     /\ fres.arg.args.kind = "map" /\ fres.arg.args.map["color"] = "bogus"
     /\ ~FreshFormat(WithoutColor(fres.arg)).raised)
    => /\ ~fres.raised
       /\ StripColor(fres.out) = StripColor(FreshFormat(WithoutColor(fres.arg)).out)
       /\ formatter.fmt = StdoutFmt

\* C9 (as claimed): after k configure_logging calls a logger holds 2k handlers,
\* a console handler and a file-or-no-op handler per call, a call keeps the
\* handlers attached before it, and each later record is delivered once to every
\* handler whose threshold its severity reaches.
C9_HandlersAccumulate ==
    \A L \in LoggerNames :
        LET hs == loggers[L].handlers
        IN  /\ Len(hs) = 2 * Len(cfg[L])
            /\ \A k \in 1..Len(cfg[L]) :
                   /\ hs[2 * k - 1].kind = "StreamHandler"
                   /\ hs[2 * k].kind \in {"FileHandler", "NullHandler"}
            /\ (last.op \in {"configure_logging", "get_custom_logger"} /\ last.logger = L)
                   => /\ Len(hs) = Len(last.before) + 2
                      /\ SubSeq(hs, 1, Len(last.before)) = last.before
            /\ (last.op \in LogOps /\ last.logger = L /\ cfg[L] # <<>>) =>
                   LET e == last.records[1]
                   IN  /\ e.created
                       /\ Len(e.deliv) = Len(hs)
                       /\ \A i \in 1..Len(hs) :
                              e.deliv[i].recv <=> LevelNo(e.levelname) >= hs[i].level

\* C10 (as claimed): every call through an adapter on a logger whose threshold
\* is DEBUG attaches one filter and removes none, and the record carries for
\* "name" the value held by the most recently attached filter that declares it.
C10_LatestFilterWins ==
    (last.op = "adapter_log" /\ loggers[last.logger].level = LevelNo("DEBUG")) =>
        LET e == last.records[1]
        IN  /\ Len(loggers[last.logger].filters) = last.nfilters + 1
            /\ e.created
            /\ ~e.raised
            /\ e.attrs["name"] = LatestDeclared(loggers[last.logger].filters, "name")

====
